---- MODULE Spec2Model ----
(***************************************************************************)
(* Ed25519 key lifecycle manager (key-manager.ts): the versioned key store *)
(* keystore.json, the per-version PEM files and the operations rotateKeys, *)
(* createNewKeyPair, listKeys and loadKeyStore, run by callers whose file  *)
(* operations interleave at every await.                                   *)
(***************************************************************************)
EXTENDS Integers, Sequences, FiniteSets, TLC

\* ------------------------------------------------------------------ bounds
\* Key pairs generated over the lifetime of the keys directory.
MaxGen == 3
\* Last instant of the wall clock read by new Date().
MaxTime == 1

\* Operations started while another caller's operation was still running.
MaxOverlap == 1

\* Longest byte buffer handed to toPEM (an Ed25519 PKCS8 export has 48
\* bytes, an SPKI export 44).
MaxBytes == 49

\* Callers of the exported operations (two CLI invocations).
Procs == {"p1", "p2"}

Versions == 1..MaxGen
Times == 0..MaxTime

\* ------------------------------------------------------------- data model
\* The PEM text of the private half of generated key pair number id.
PrivatePem(id) == <<"PRIVATE KEY", id>>
\* The PEM text of the public half of generated key pair number id.
PublicPem(id) == <<"PUBLIC KEY", id>>

\* interface KeyPair
KeyPair(id, t, v) ==
  [privateKey |-> PrivatePem(id), publicKey |-> PublicPem(id),
   createdAt |-> t, version |-> v]

\* interface KeyStore
KeyStore(cv, ks) == [currentVersion |-> cv, keys |-> ks]

\* The literal { currentVersion: 0, keys: [] } loadKeyStore falls back to.
EmptyStore == KeyStore(0, <<>>)

\* Variant: the increment of line 109 left out.
NewVersion_NoIncrement(store) == store.currentVersion

\* createNewKeyPair, line 109: the version of the pair about to be made.
NewVersion(store) == store.currentVersion + 1

\* Variant: line 130 left out, currentVersion keeps its loaded value.
AddKeyPair_KeepVersion(store, id, t, v) ==
  KeyStore(store.currentVersion, Append(store.keys, KeyPair(id, t, v)))

\* Variant: unshift instead of push, the new KeyPair goes first.
AddKeyPair_Unshift(store, id, t, v) ==
  KeyStore(v, <<KeyPair(id, t, v)>> \o store.keys)

\* Variant: the keys array is replaced by the new KeyPair alone.
AddKeyPair_Replace(store, id, t, v) ==
  KeyStore(v, <<KeyPair(id, t, v)>>)

\* createNewKeyPair, lines 122-130: push the new KeyPair and make its
\* version the current one.
AddKeyPair(store, id, t, v) ==
  KeyStore(v, Append(store.keys, KeyPair(id, t, v)))

\* A parsed JSON value has the shape of a KeyStore.
IsKeyStore(v) == DOMAIN v = {"currentVersion", "keys"}

\* Valid JSON documents that are not store documents: null, {} and an
\* object without the keys array.
JsonNull == [jsonNull |-> TRUE]
JsonEmptyObject == [jsonObject |-> TRUE]
JsonNoKeys == [currentVersion |-> 1]
OtherJson == {JsonNull, JsonEmptyObject, JsonNoKeys}

\* ------------------------------------------------------------------ files
\* JSON.stringify(keyStore, null, 2): every entry serialises to the same
\* number of bytes, so the length of the text grows with the number of keys.
JSONstringify(v) ==
  [kind |-> "json", len |-> IF IsKeyStore(v) THEN 1 + Len(v.keys) ELSE 1,
   value |-> v]

\* The first bytes of a document, cut short: no prefix of a pretty-printed
\* JSON object is itself JSON.
CutText(n) == [kind |-> "cut", len |-> n, value |-> EmptyStore]

\* A complete document followed by the tail of a longer one.
GarbledText(n) == [kind |-> "garbled", len |-> n, value |-> EmptyStore]

\* JSON.parse(data): the value, or a SyntaxError.
JSONparse(text) ==
  IF text.kind = "json" THEN [ok |-> TRUE, value |-> text.value]
  ELSE [ok |-> FALSE, value |-> EmptyStore]

\* keystore.json does not exist.
NoStoreFile == [exists |-> FALSE, readable |-> TRUE, text |-> CutText(0)]
\* keystore.json holds text, readable by the process.
StoreFileOf(text) == [exists |-> TRUE, readable |-> TRUE, text |-> text]

\* A per-version PEM file that does not exist / holds text.
NoKeyFile == [exists |-> FALSE, text |-> <<>>]
KeyFileOf(text) == [exists |-> TRUE, text |-> text]

\* The store document a reader of keystore.json can retrieve keys from:
\* the parsed document, or the empty store when there is none to parse.
Persisted(f) ==
  IF f.exists /\ f.readable /\ JSONparse(f.text).ok
     /\ IsKeyStore(JSONparse(f.text).value)
  THEN JSONparse(f.text).value
  ELSE EmptyStore

\* The file holds a parsable store document.
HoldsStore(f) ==
  f.exists /\ f.readable /\ JSONparse(f.text).ok
  /\ IsKeyStore(JSONparse(f.text).value)

\* ---------------------------------------------------------------- console
Log(level, msg, args) == [level |-> level, msg |-> msg, args |-> args]

\* ------------------------------------------------------------------ state
\* -------------------------------------------------------------- PEM codec
\* Text is a sequence of characters; a delimiter line is spelled with its
\* dashes and keyword as one piece and the label as another.
NewLine == "\n"

\* The base64 alphabet of btoa; "=" pads.
Base64Chars ==
  <<
    "A", "B", "C", "D", "E", "F", "G", "H", "I", "J", "K", "L", "M", "N", "O", "P",
    "Q", "R", "S", "T", "U", "V", "W", "X", "Y", "Z", "a", "b", "c", "d", "e", "f",
    "g", "h", "i", "j", "k", "l", "m", "n", "o", "p", "q", "r", "s", "t", "u", "v",
    "w", "x", "y", "z", "0", "1", "2", "3", "4", "5", "6", "7", "8", "9", "+", "/"
  >>

\* Variant: the bytes are taken one place too far.
ByteAt_OffByOne(bytes, i) == IF i + 1 < Len(bytes) THEN bytes[i + 2] ELSE 0

\* The byte at index i (from 0) of a buffer, 0 past its end.
ByteAt(bytes, i) == IF i < Len(bytes) THEN bytes[i + 1] ELSE 0

\* btoa(String.fromCharCode(...new Uint8Array(buffer))): every three bytes
\* give four characters, a last group of one or two bytes is padded.
btoa(bytes) ==
  [k \in 1..(4 * ((Len(bytes) + 2) \div 3)) |->
     LET g  == (k - 1) \div 4
         j  == (k - 1) % 4
         b0 == ByteAt(bytes, 3 * g)
         b1 == ByteAt(bytes, 3 * g + 1)
         b2 == ByteAt(bytes, 3 * g + 2)
         given == Len(bytes) - 3 * g
     IN CASE j = 0 -> Base64Chars[(b0 \div 4) + 1]
          [] j = 1 -> Base64Chars[((b0 % 4) * 16 + (b1 \div 16)) + 1]
          [] j = 2 -> IF given < 2 THEN "="
                      ELSE Base64Chars[((b1 % 16) * 4 + (b2 \div 64)) + 1]
          [] OTHER -> IF given < 3 THEN "="
                      ELSE Base64Chars[(b2 % 64) + 1]]

\* .replace(/(.{64})/g, '$1\n'): a line break after every complete group of
\* 64 characters.
BreakLines(chars) ==
  [k \in 1..(Len(chars) + Len(chars) \div 64) |->
     IF k % 65 = 0 THEN NewLine ELSE chars[k - (k \div 65)]]

\* Variant: trim() does nothing.
trim_Not(chars) == chars

\* .trim(): without the white space at either end (the text holds no white
\* space but the line breaks).
trim(chars) ==
  LET kept == {k \in DOMAIN chars : chars[k] # NewLine}
  IN IF kept = {} THEN <<>>
     ELSE SubSeq(chars, CHOOSE k \in kept : \A m \in kept : k <= m,
                        CHOOSE k \in kept : \A m \in kept : m <= k)

\* The delimiter lines, without their line break.
BeginLine(label) == <<"-----BEGIN ", label, "-----">>
EndLine(label) == <<"-----END ", label, "-----">>

\* function toPEM(buffer, label)
toPEM(buffer, label) ==
  BeginLine(label) \o <<NewLine>> \o trim(BreakLines(btoa(buffer)))
    \o <<NewLine>> \o EndLine(label) \o <<NewLine>>

\* text.split('\n'): the pieces between the line breaks.
Split(text) ==
  LET breaks == {k \in DOMAIN text : text[k] = NewLine}
      n == Cardinality(breaks)
      BreakAt(i) ==
        IF i = 0 THEN 0
        ELSE IF i = n + 1 THEN Len(text) + 1
        ELSE CHOOSE k \in breaks : Cardinality({m \in breaks : m < k}) = i - 1
  IN [i \in 1..(n + 1) |-> SubSeq(text, BreakAt(i - 1) + 1, BreakAt(i) - 1)]

\* The pieces of a sequence of lines put one after the other.
RECURSIVE Concat(_)
Concat(lines) ==
  IF lines = <<>> THEN <<>> ELSE Head(lines) \o Concat(Tail(lines))

\* The value of a base64 character, 0 for the padding.
SextetOf(c) ==
  IF c = "=" THEN 0 ELSE (CHOOSE i \in 1..64 : Base64Chars[i] = c) - 1

\* atob of a padded base64 text, as bytes.
atob(chars) ==
  LET pad == Cardinality({k \in DOMAIN chars : chars[k] = "="})
  IN [i \in 1..(3 * (Len(chars) \div 4) - pad) |->
        LET g  == (i - 1) \div 3
            j  == (i - 1) % 3
            s0 == SextetOf(chars[4 * g + 1])
            s1 == SextetOf(chars[4 * g + 2])
            s2 == SextetOf(chars[4 * g + 3])
            s3 == SextetOf(chars[4 * g + 4])
        IN CASE j = 0 -> s0 * 4 + s1 \div 16
             [] j = 1 -> (s1 % 16) * 16 + s2 \div 4
             [] OTHER -> (s2 % 4) * 64 + s3]

\* The body lines of a PEM text: the pieces between the first line and the
\* END line.
BodyLines(text) ==
  LET pieces == Split(text)
  IN SubSeq(pieces, 2, Len(pieces) - 2)

\* The decode the design describes: strip the delimiter lines, concatenate
\* the body lines, base64-decode; a failure when the delimiter lines are not
\* those of one label.
decode(text) ==
  LET pieces == Split(text)
  IN IF /\ Len(pieces) >= 3
        /\ Len(pieces[1]) = 3
        /\ pieces[1] = BeginLine(pieces[1][2])
        /\ pieces[Len(pieces) - 1] = EndLine(pieces[1][2])
        /\ Len(Concat(BodyLines(text))) % 4 = 0
     THEN [ok |-> TRUE, bytes |-> atob(Concat(BodyLines(text)))]
     ELSE [ok |-> FALSE, bytes |-> <<>>]

\* Buffers handed to toPEM: every length up to MaxBytes, filled with bytes
\* that start at first and go up by step.
Buffers ==
  {[i \in 1..n |-> (first + (i - 1) * step) % 256] :
     n \in 0..MaxBytes, first \in {0, 48, 255}, step \in {0, 7}}

Labels == {"PRIVATE KEY", "PUBLIC KEY"}

VARIABLES
  pemBuffer,    \* codec: the buffer handed to toPEM
  pemLabel,     \* codec: the label handed to toPEM
  pemText,      \* codec: the text toPEM returned (<<>>: not called yet)
  pemDecoded,   \* codec: what decoding pemText gave
  dirExists,    \* ./.keys exists
  storeFile,    \* ./.keys/keystore.json
  keyFiles,     \* version -> [private, public]: private-vN.pem, public-vN.pem
  now,          \* wall clock
  generated,    \* history: generated[id] = version given to generated pair
                \* number id when its KeyPair was built (0: not built)
  overlaps,     \* history: operations started while another one was running
  pc,           \* per caller: the await it is suspended at
  cmd,          \* per caller: the operation it invoked
  caller,       \* per caller: the function that called loadKeyStore
  rotStore,     \* per caller: keyStore of rotateKeys (line 144)
  keyStore,     \* per caller: keyStore of createNewKeyPair (line 108)
  newVersion,   \* per caller: newVersion of createNewKeyPair (line 109)
  keyId,        \* per caller: the pair returned by generateKeyPair (line 116)
  result,       \* per caller: value returned to the caller
  console,      \* per caller: lines written by console.log / console.warn
  io            \* history, per caller: the file-system and crypto calls its
                \* current operation has issued, in order

vars == <<dirExists, storeFile, keyFiles, now, generated, overlaps, pc, cmd, caller,
          rotStore, keyStore, newVersion, keyId, result, console, io,
          pemBuffer, pemLabel, pemText, pemDecoded>>

pemVars == <<pemBuffer, pemLabel, pemText, pemDecoded>>
fsVars == <<dirExists, storeFile, keyFiles>>
localVars == <<rotStore, keyStore, newVersion, keyId>>

Idle ==
  /\ pc = [p \in Procs |-> "idle"]
  /\ cmd = [p \in Procs |-> "none"]
  /\ caller = [p \in Procs |-> "none"]
  /\ rotStore = [p \in Procs |-> EmptyStore]
  /\ keyStore = [p \in Procs |-> EmptyStore]
  /\ newVersion = [p \in Procs |-> 0]
  /\ keyId = [p \in Procs |-> 0]
  /\ result = [p \in Procs |-> EmptyStore]
  /\ console = [p \in Procs |-> <<>>]
  /\ io = [p \in Procs |-> <<>>]
  /\ pemBuffer = <<>>
  /\ pemLabel = "PRIVATE KEY"
  /\ pemText = <<>>
  /\ pemDecoded = [ok |-> FALSE, bytes |-> <<>>]

\* A fresh checkout: no keys directory, no store file, no key files.
Init ==
  /\ dirExists = FALSE
  /\ storeFile = NoStoreFile
  /\ keyFiles = [v \in Versions |-> [private |-> NoKeyFile, public |-> NoKeyFile]]
  /\ now = 0
  /\ generated = <<>>
  /\ overlaps = 0
  /\ Idle


\* ---------------------------------------------------------------- helpers
Say(p, lines) == console' = [console EXCEPT ![p] = console[p] \o lines]

\* Caller p issues the call op (exists, readTextFile, ensureDir, generateKey,
\* writePrivate, writePublic, writeStore), whatever its outcome.
Issue(p, op) == io' = [io EXCEPT ![p] = Append(io[p], op)]

\* The call of p ends: its frames are popped, their locals are gone, and
\* the caller holds value (the returned store, or nothing after a throw).
Finish(p, how, value) ==
  /\ pc' = [pc EXCEPT ![p] = how]
  /\ result' = [result EXCEPT ![p] = value]
  /\ rotStore' = [rotStore EXCEPT ![p] = EmptyStore]
  /\ keyStore' = [keyStore EXCEPT ![p] = EmptyStore]
  /\ newVersion' = [newVersion EXCEPT ![p] = 0]
  /\ keyId' = [keyId EXCEPT ![p] = 0]

\* Not inside an operation.
Resting == {"idle", "done", "failed"}

\* No other caller is inside an operation.
Alone(p) == \A q \in Procs \ {p} : pc[q] \in Resting

\* An operation starts: the caller drops what the previous call left.
Start(p, c, f, at) ==
  /\ pc[p] \in Resting
  /\ IF Alone(p) THEN UNCHANGED overlaps
     ELSE overlaps < MaxOverlap /\ overlaps' = overlaps + 1
  /\ pc' = [pc EXCEPT ![p] = at]
  /\ cmd' = [cmd EXCEPT ![p] = c]
  /\ caller' = [caller EXCEPT ![p] = f]
  /\ result' = [result EXCEPT ![p] = EmptyStore]
  /\ io' = [io EXCEPT ![p] = <<>>]

\* new Date(createdAt).toLocaleString(): the instant rendered in the locale
\* and time zone of the process.
toLocaleString(t) == [locale |-> "default", instant |-> t]

\* console.log('\u2500'.repeat(70))
Rule == Log("log", "rule", <<70>>)

\* Variant: the row shows the age of the key instead of its creation time.
ListLines_Age(store) ==
  [i \in 1..Len(store.keys) |->
     Log("log",
         IF store.keys[i].version = store.currentVersion
         THEN "  Current " ELSE "  Archived",
         <<store.keys[i].version, now - store.keys[i].createdAt>>)]

\* Variant: the row of the newest creation time is the one marked Current.
ListLines_MarkNewest(store) ==
  [i \in 1..Len(store.keys) |->
     Log("log",
         IF \A j \in 1..Len(store.keys) :
              store.keys[j].createdAt <= store.keys[i].createdAt
         THEN "  Current " ELSE "  Archived",
         <<store.keys[i].version, toLocaleString(store.keys[i].createdAt)>>)]

\* The rows listKeys prints, one per stored key in stored order.
ListLines(store) ==
  [i \in 1..Len(store.keys) |->
     Log("log",
         IF store.keys[i].version = store.currentVersion
         THEN "  Current " ELSE "  Archived",
         <<store.keys[i].version, toLocaleString(store.keys[i].createdAt)>>)]

\* What the function that awaited loadKeyStore does with the value v, up to
\* its next await; lines are the console lines loadKeyStore itself wrote.
\* A value without a keys array makes the first keyStore.keys access of the
\* caller throw a TypeError.
AfterLoad(p, v, lines) ==
  CASE caller[p] = "export" ->
         /\ Finish(p, "done", v)
         /\ Say(p, lines)
    [] caller[p] = "listKeys" ->
         /\ Finish(p, IF IsKeyStore(v) THEN "done" ELSE "failed", EmptyStore)
         /\ Say(p, lines \o
                IF ~IsKeyStore(v) THEN <<>>
                ELSE IF Len(v.keys) = 0
                THEN <<Log("log", "No keys found in keystore", <<>>)>>
                ELSE <<Log("log", "Stored Keys:", <<>>), Rule>> \o ListLines(v)
                     \o <<Rule, Log("log", "Total", <<Len(v.keys)>>)>>)
    [] caller[p] = "rotateKeys" ->
         IF IsKeyStore(v)
         THEN /\ rotStore' = [rotStore EXCEPT ![p] = v]
              /\ pc' = [pc EXCEPT ![p] = "init_dir"]
              /\ Say(p, lines \o
                     IF Len(v.keys) = 0
                     THEN <<Log("log", "No existing keys found, creating first key pair...", <<>>)>>
                     ELSE <<Log("log", "Rotating keys from version", <<v.currentVersion>>),
                            Log("log", "Preserving previous key(s)", <<Len(v.keys)>>)>>)
              /\ UNCHANGED <<result, keyStore, newVersion, keyId>>
         ELSE /\ Finish(p, "failed", EmptyStore)
              /\ Say(p, lines)
    [] caller[p] = "createNewKeyPair" ->
         IF IsKeyStore(v)
         THEN /\ keyStore' = [keyStore EXCEPT ![p] = v]
              /\ newVersion' = [newVersion EXCEPT ![p] = NewVersion(v)]
              /\ pc' = [pc EXCEPT ![p] = "generate"]
              /\ Say(p, lines \o
                     <<Log("log", "Generating Ed25519 key pair", <<NewVersion(v)>>)>>)
              /\ UNCHANGED <<result, rotStore, keyId>>
         ELSE /\ Finish(p, "failed", EmptyStore)
              /\ Say(p, lines)

\* ------------------------------------------------------------- operations
\* CLI 'rotate' / exported rotateKeys(): starts with loadKeyStore (line 144).
CallRotate(p) ==
  /\ Start(p, "rotate", "rotateKeys", "load_exists")
  /\ console' = [console EXCEPT ![p] = <<>>]
  /\ UNCHANGED <<fsVars, now, generated, localVars>>
  /\ UNCHANGED pemVars

\* CLI 'list' / exported listKeys(): starts with loadKeyStore (line 168).
CallList(p) ==
  /\ Start(p, "list", "listKeys", "load_exists")
  /\ console' = [console EXCEPT ![p] = <<>>]
  /\ UNCHANGED <<fsVars, now, generated, localVars>>
  /\ UNCHANGED pemVars

\* The exported loadKeyStore() called directly.
CallLoad(p) ==
  /\ Start(p, "load", "export", "load_exists")
  /\ console' = [console EXCEPT ![p] = <<>>]
  /\ UNCHANGED <<fsVars, now, generated, localVars>>
  /\ UNCHANGED pemVars

\* Variant: the default branch of the switch prints the usage text and then
\* lists the keys.
CallUsage_Lists(p) ==
  /\ Start(p, "usage", "listKeys", "load_exists")
  /\ console' = [console EXCEPT ![p] =
                   <<Log("log", "Usage:", <<>>), Log("log", "  rotate", <<>>),
                     Log("log", "  list", <<>>)>>]
  /\ UNCHANGED <<fsVars, now, generated, localVars>>
  /\ UNCHANGED pemVars

\* Variant: the default branch of the switch rotates.
CallUsage_Rotates(p) ==
  /\ Start(p, "usage", "rotateKeys", "load_exists")
  /\ console' = [console EXCEPT ![p] = <<>>]
  /\ UNCHANGED <<fsVars, now, generated, localVars>>
  /\ UNCHANGED pemVars

\* CLI with no argument or an unrecognised one: the default branch.
CallUsage(p) ==
  /\ Start(p, "usage", "none", "done")
  /\ console' = [console EXCEPT ![p] =
                   <<Log("log", "Usage:", <<>>), Log("log", "  rotate", <<>>),
                     Log("log", "  list", <<>>)>>]
  /\ UNCHANGED <<fsVars, now, generated, localVars>>
  /\ UNCHANGED pemVars

\* Variant: a missing keystore.json is reported with the warning too.
LoadExists_Warns(p) ==
  /\ pc[p] = "load_exists"
  /\ Issue(p, "exists")
  /\ IF storeFile.exists
     THEN /\ pc' = [pc EXCEPT ![p] = "load_read"]
          /\ UNCHANGED <<localVars, result, console>>
     ELSE AfterLoad(p, EmptyStore,
                    <<Log("warn", "Could not load keystore, creating new one", <<>>)>>)
  /\ UNCHANGED <<fsVars, now, generated, overlaps, cmd, caller>>
  /\ UNCHANGED pemVars

\* Variant: loadKeyStore creates keystore.json with the empty store when
\* the file is missing.
LoadExists_CreatesStore(p) ==
  /\ pc[p] = "load_exists"
  /\ Issue(p, "exists")
  /\ IF storeFile.exists
     THEN /\ pc' = [pc EXCEPT ![p] = "load_read"]
          /\ UNCHANGED <<localVars, result, console, storeFile>>
     ELSE /\ AfterLoad(p, EmptyStore, <<>>)
          /\ storeFile' = StoreFileOf(JSONstringify(EmptyStore))
  /\ UNCHANGED <<dirExists, keyFiles, now, generated, overlaps, cmd, caller>>
  /\ UNCHANGED pemVars

\* loadKeyStore, await exists(KEY_STORE_FILE): a missing file skips the
\* try block and returns the empty store.
LoadExists(p) ==
  /\ pc[p] = "load_exists"
  /\ Issue(p, "exists")
  /\ IF storeFile.exists
     THEN /\ pc' = [pc EXCEPT ![p] = "load_read"]
          /\ UNCHANGED <<localVars, result, console>>
     ELSE AfterLoad(p, EmptyStore, <<>>)
  /\ UNCHANGED <<fsVars, now, generated, overlaps, cmd, caller>>
  /\ UNCHANGED pemVars

\* Variant: no catch block, a failed read or parse rejects the call.
LoadRead_NoCatch(p) ==
  /\ pc[p] = "load_read"
  /\ Issue(p, "readTextFile")
  /\ IF storeFile.exists /\ storeFile.readable /\ JSONparse(storeFile.text).ok
     THEN AfterLoad(p, JSONparse(storeFile.text).value, <<>>)
     ELSE Finish(p, "failed", EmptyStore) /\ UNCHANGED console
  /\ UNCHANGED <<fsVars, now, generated, overlaps, cmd, caller>>
  /\ UNCHANGED pemVars

\* loadKeyStore, await Deno.readTextFile and JSON.parse: the parsed value,
\* or the warning and the empty store when either throws.
LoadRead(p) ==
  /\ pc[p] = "load_read"
  /\ Issue(p, "readTextFile")
  /\ IF storeFile.exists /\ storeFile.readable /\ JSONparse(storeFile.text).ok
     THEN AfterLoad(p, JSONparse(storeFile.text).value, <<>>)
     ELSE AfterLoad(p, EmptyStore,
                    <<Log("warn", "Could not load keystore, creating new one", <<>>)>>)
  /\ UNCHANGED <<fsVars, now, generated, overlaps, cmd, caller>>
  /\ UNCHANGED pemVars

\* Outcomes of one Deno.writeTextFile: written, rejected before the file was
\* opened, or rejected after the open truncated it.
WriteOutcomes == {"ok", "refused", "cut"}

\* createNewKeyPair, await initKeysDirectory(): ensureDir creates ./.keys or
\* rejects; then loadKeyStore is called (line 108).
InitKeysDirectory(p) ==
  /\ pc[p] = "init_dir"
  /\ Issue(p, "ensureDir")
  /\ \E outcome \in {"ok", "refused"} :
       IF outcome = "ok"
       THEN /\ dirExists' = TRUE
            /\ pc' = [pc EXCEPT ![p] = "load_exists"]
            /\ caller' = [caller EXCEPT ![p] = "createNewKeyPair"]
            /\ Say(p, <<Log("log", "Keys directory ready", <<>>)>>)
            /\ UNCHANGED <<localVars, result>>
       ELSE /\ Finish(p, "failed", EmptyStore)
            /\ UNCHANGED <<dirExists, caller, console>>
  /\ UNCHANGED <<storeFile, keyFiles, now, generated, overlaps, cmd>>
  /\ UNCHANGED pemVars

\* Variant: the private key file is created before the key pair is
\* generated, so a rejected generation leaves an empty file behind.
GenerateKeyPair_FileFirst(p) ==
  /\ pc[p] = "generate"
  /\ Issue(p, "generateKey")
  /\ \E outcome \in {"ok", "refused"} :
       IF outcome = "ok"
       THEN /\ Len(generated) < MaxGen
            /\ generated' = Append(generated, 0)
            /\ keyId' = [keyId EXCEPT ![p] = Len(generated) + 1]
            /\ pc' = [pc EXCEPT ![p] = "save_private"]
            /\ UNCHANGED <<rotStore, keyStore, newVersion, result, keyFiles>>
       ELSE /\ Finish(p, "failed", EmptyStore)
            /\ keyFiles' = [keyFiles EXCEPT ![newVersion[p]].private = KeyFileOf(<<>>)]
            /\ UNCHANGED generated
  /\ UNCHANGED <<dirExists, storeFile, now, overlaps, cmd, caller, console>>
  /\ UNCHANGED pemVars

\* createNewKeyPair, await generateKeyPair(): a key pair never produced
\* before, or the rejection of crypto.subtle; then saveKeyFiles starts.
GenerateKeyPair(p) ==
  /\ pc[p] = "generate"
  /\ Issue(p, "generateKey")
  /\ \E outcome \in {"ok", "refused"} :
       IF outcome = "ok"
       THEN /\ Len(generated) < MaxGen
            /\ generated' = Append(generated, 0)
            /\ keyId' = [keyId EXCEPT ![p] = Len(generated) + 1]
            /\ pc' = [pc EXCEPT ![p] = "save_private"]
            /\ UNCHANGED <<rotStore, keyStore, newVersion, result>>
       ELSE /\ Finish(p, "failed", EmptyStore)
            /\ UNCHANGED generated
  /\ UNCHANGED <<fsVars, now, overlaps, cmd, caller, console>>
  /\ UNCHANGED pemVars

\* Variant: the write of the private key file is not awaited, so the call
\* goes on whatever became of it.
SavePrivateKeyFile_NoAwait(p) ==
  /\ pc[p] = "save_private"
  /\ Issue(p, "writePrivate")
  /\ \E outcome \in WriteOutcomes :
       /\ keyFiles' =
            [keyFiles EXCEPT ![newVersion[p]].private =
               CASE outcome = "ok" -> KeyFileOf(PrivatePem(keyId[p]))
                 [] outcome = "cut" -> KeyFileOf(<<>>)
                 [] OTHER -> @]
       /\ pc' = [pc EXCEPT ![p] = "save_public"]
       /\ UNCHANGED <<localVars, result>>
  /\ UNCHANGED <<dirExists, storeFile, now, generated, overlaps, cmd, caller, console>>
  /\ UNCHANGED pemVars

\* saveKeyFiles, await Deno.writeTextFile(privateKeyPath, privateKey).
SavePrivateKeyFile(p) ==
  /\ pc[p] = "save_private"
  /\ Issue(p, "writePrivate")
  /\ \E outcome \in WriteOutcomes :
       /\ keyFiles' =
            [keyFiles EXCEPT ![newVersion[p]].private =
               CASE outcome = "ok" -> KeyFileOf(PrivatePem(keyId[p]))
                 [] outcome = "cut" -> KeyFileOf(<<>>)
                 [] OTHER -> @]
       /\ IF outcome = "ok"
          THEN /\ pc' = [pc EXCEPT ![p] = "save_public"]
               /\ UNCHANGED <<localVars, result>>
          ELSE Finish(p, "failed", EmptyStore)
  /\ UNCHANGED <<dirExists, storeFile, now, generated, overlaps, cmd, caller, console>>
  /\ UNCHANGED pemVars

\* saveKeyFiles, await Deno.writeTextFile(publicKeyPath, publicKey); on
\* success createNewKeyPair appends the new KeyPair, sets currentVersion and
\* calls saveKeyStore, which serialises the store and starts its write.
SavePublicKeyFile(p) ==
  /\ pc[p] = "save_public"
  /\ Issue(p, "writePublic")
  /\ \E outcome \in WriteOutcomes :
       /\ keyFiles' =
            [keyFiles EXCEPT ![newVersion[p]].public =
               CASE outcome = "ok" -> KeyFileOf(PublicPem(keyId[p]))
                 [] outcome = "cut" -> KeyFileOf(<<>>)
                 [] OTHER -> @]
       /\ IF outcome = "ok"
          THEN \E t \in now..MaxTime :
                 /\ now' = t
                 /\ keyStore' =
                      [keyStore EXCEPT ![p] =
                         AddKeyPair(keyStore[p], keyId[p], t, newVersion[p])]
                 /\ generated' = [generated EXCEPT ![keyId[p]] = newVersion[p]]
                 /\ pc' = [pc EXCEPT ![p] = "save_store_open"]
                 /\ UNCHANGED <<rotStore, newVersion, keyId, result>>
          ELSE /\ Finish(p, "failed", EmptyStore)
               /\ UNCHANGED <<now, generated>>
  /\ UNCHANGED <<dirExists, storeFile, overlaps, cmd, caller, console>>
  /\ UNCHANGED pemVars

\* Variant: a refused open of keystore.json is tried a second time.
SaveKeyStoreOpen_Retry(p) ==
  /\ pc[p] = "save_store_open"
  /\ Issue(p, "writeStore")
  /\ \E outcome \in {"ok", "refused"} :
       IF outcome = "ok"
       THEN /\ storeFile' = StoreFileOf(CutText(0))
            /\ pc' = [pc EXCEPT ![p] = "save_store_write"]
            /\ UNCHANGED <<localVars, result>>
       ELSE /\ IF \E i \in DOMAIN io[p] : io[p][i] = "writeStore"
               THEN Finish(p, "failed", EmptyStore)
               ELSE UNCHANGED <<pc, localVars, result>>
            /\ UNCHANGED storeFile
  /\ UNCHANGED <<dirExists, keyFiles, now, generated, overlaps, cmd, caller, console>>
  /\ UNCHANGED pemVars

\* saveKeyStore, Deno.writeTextFile opening keystore.json: the open creates
\* the file or truncates it to no bytes, or is refused.
SaveKeyStoreOpen(p) ==
  /\ pc[p] = "save_store_open"
  /\ Issue(p, "writeStore")
  /\ \E outcome \in {"ok", "refused"} :
       IF outcome = "ok"
       THEN /\ storeFile' = StoreFileOf(CutText(0))
            /\ pc' = [pc EXCEPT ![p] = "save_store_write"]
            /\ UNCHANGED <<localVars, result>>
       ELSE /\ Finish(p, "failed", EmptyStore)
            /\ UNCHANGED storeFile
  /\ UNCHANGED <<dirExists, keyFiles, now, generated, overlaps, cmd, caller, console>>
  /\ UNCHANGED pemVars

\* The bytes of keystore.json after text was written from offset 0 into a
\* file holding old: a longer old text keeps its tail.
Overwrite(old, text) ==
  IF old.len > text.len THEN GarbledText(old.len) ELSE text

\* saveKeyStore, Deno.writeTextFile writing the serialised store; on success
\* createNewKeyPair returns keyStore and rotateKeys returns it to its caller.
SaveKeyStoreWrite(p) ==
  /\ pc[p] = "save_store_write"
  /\ UNCHANGED io
  /\ \E outcome \in {"ok", "refused"} :
       IF outcome = "ok"
       THEN /\ storeFile' =
                 StoreFileOf(Overwrite(storeFile.text, JSONstringify(keyStore[p])))
            /\ Finish(p, "done", keyStore[p])
            /\ Say(p, <<Log("log", "Key pair successfully generated (PKCS8/SPKI)", <<>>)>>
                      \o IF Len(rotStore[p].keys) = 0 THEN <<>>
                         ELSE <<Log("log", "Key rotation complete:", <<>>),
                                Log("log", "  - Current version", <<keyStore[p].currentVersion>>),
                                Log("log", "  - Total keys stored", <<Len(keyStore[p].keys)>>),
                                Log("log", "  - Previous versions",
                                    [i \in 1..(Len(keyStore[p].keys) - 1) |->
                                       keyStore[p].keys[i].version])>>)
       ELSE /\ Finish(p, "failed", EmptyStore)
            /\ UNCHANGED <<storeFile, console>>
  /\ UNCHANGED <<dirExists, keyFiles, now, generated, overlaps, cmd, caller>>
  /\ UNCHANGED pemVars

\* ---------------------------------------------------------- specifications
Step(p) ==
  \/ CallRotate(p)
  \/ CallList(p)
  \/ CallLoad(p)
  \/ CallUsage(p)
  \/ LoadExists(p)
  \/ LoadRead(p)
  \/ InitKeysDirectory(p)
  \/ GenerateKeyPair(p)
  \/ SavePrivateKeyFile(p)
  \/ SavePublicKeyFile(p)
  \/ SaveKeyStoreOpen(p)
  \/ SaveKeyStoreWrite(p)

\* Callers run concurrently: any caller takes its next step.
Next == \E p \in Procs : Step(p)

Spec == Init /\ [][Next]_vars

\* Single-writer use: one caller, whose operations follow one another.
NextSeq == Step("p1")

SpecSeq == Init /\ [][NextSeq]_vars

\* loadKeyStore as a function of what it finds on disk.
\* Store documents a directory may hold: up to two keys, made in order.
SampleStores ==
  {EmptyStore}
  \cup {KeyStore(1, <<KeyPair(1, t, 1)>>) : t \in Times}
  \cup {KeyStore(2, <<KeyPair(1, t[1], 1), KeyPair(2, t[2], 2)>>) :
          t \in {u \in Times \X Times : u[1] <= u[2]}}

\* Contents of keystore.json: documents, other JSON, cut and garbled text.
StoreTexts ==
  {JSONstringify(v) : v \in SampleStores \cup OtherJson}
  \cup {CutText(n) : n \in 0..2} \cup {GarbledText(2)}

\* keystore.json as found: missing, or present and readable or not.
StoreFileInputs ==
  {NoStoreFile}
  \cup {[exists |-> TRUE, readable |-> r, text |-> x] :
          r \in BOOLEAN, x \in StoreTexts}

\* The per-version files and the history that go with a stored document.
KeyFilesOf(store) ==
  [v \in Versions |->
     IF v <= Len(store.keys)
     THEN [private |-> KeyFileOf(store.keys[v].privateKey),
           public |-> KeyFileOf(store.keys[v].publicKey)]
     ELSE [private |-> NoKeyFile, public |-> NoKeyFile]]

InitLoad ==
  /\ storeFile \in StoreFileInputs
  /\ dirExists = storeFile.exists
  /\ keyFiles = KeyFilesOf(Persisted([storeFile EXCEPT !.readable = TRUE]))
  /\ generated = [i \in 1..Len(Persisted([storeFile EXCEPT !.readable = TRUE]).keys) |-> i]
  /\ now = 0
  /\ overlaps = 0
  /\ Idle

NextLoad == \E p \in Procs : CallLoad(p) \/ LoadExists(p) \/ LoadRead(p)

SpecLoad == InitLoad /\ [][NextLoad]_vars

\* listKeys alone, called by either caller over each content of
\* keystore.json while the clock runs: nothing rotates between the calls.
InitList ==
  /\ storeFile \in StoreFileInputs
  /\ dirExists = storeFile.exists
  /\ keyFiles = KeyFilesOf(Persisted([storeFile EXCEPT !.readable = TRUE]))
  /\ generated = [i \in 1..Len(Persisted([storeFile EXCEPT !.readable = TRUE]).keys) |-> i]
  /\ now \in {t \in Times :
               \A i \in DOMAIN Persisted([storeFile EXCEPT !.readable = TRUE]).keys :
                 Persisted([storeFile EXCEPT !.readable = TRUE]).keys[i].createdAt <= t}
  /\ overlaps = 0
  /\ Idle

\* Time passes between two calls.
Tick ==
  /\ now < MaxTime
  /\ now' = now + 1
  /\ UNCHANGED <<fsVars, generated, overlaps, pc, cmd, caller, localVars,
                 result, console, io, pemVars>>

NextList == Tick \/ \E p \in Procs : CallList(p) \/ LoadExists(p) \/ LoadRead(p)

SpecList == InitList /\ [][NextList]_vars

\* saveKeyStore when one Deno.writeTextFile is atomic: keystore.json gets
\* the whole serialised store in one step, or the write is refused and the
\* file stays as it is.
SaveKeyStoreAtomic(p) ==
  /\ pc[p] = "save_store_open"
  /\ Issue(p, "writeStore")
  /\ \E outcome \in {"ok", "refused"} :
       IF outcome = "ok"
       THEN /\ storeFile' = StoreFileOf(JSONstringify(keyStore[p]))
            /\ Finish(p, "done", keyStore[p])
            /\ Say(p, <<Log("log", "Key pair successfully generated (PKCS8/SPKI)", <<>>)>>
                      \o IF Len(rotStore[p].keys) = 0 THEN <<>>
                         ELSE <<Log("log", "Key rotation complete:", <<>>),
                                Log("log", "  - Current version", <<keyStore[p].currentVersion>>),
                                Log("log", "  - Total keys stored", <<Len(keyStore[p].keys)>>),
                                Log("log", "  - Previous versions",
                                    [i \in 1..(Len(keyStore[p].keys) - 1) |->
                                       keyStore[p].keys[i].version])>>)
       ELSE /\ Finish(p, "failed", EmptyStore)
            /\ UNCHANGED <<storeFile, console>>
  /\ UNCHANGED <<dirExists, keyFiles, now, generated, overlaps, cmd, caller>>
  /\ UNCHANGED pemVars

\* Rotations of callers that interleave at every await, each file read and
\* write being atomic.
StepAtomic(p) ==
  \/ CallRotate(p)
  \/ LoadExists(p)
  \/ LoadRead(p)
  \/ InitKeysDirectory(p)
  \/ GenerateKeyPair(p)
  \/ SavePrivateKeyFile(p)
  \/ SavePublicKeyFile(p)
  \/ SaveKeyStoreAtomic(p)

NextAtomic == \E p \in Procs : StepAtomic(p)

SpecAtomic == Init /\ [][NextAtomic]_vars

\* The codec alone: toPEM applied to each buffer and label, and its text
\* decoded.
InitPEM ==
  /\ pemBuffer \in Buffers
  /\ pemLabel \in Labels
  /\ pemText = <<>>
  /\ pemDecoded = [ok |-> FALSE, bytes |-> <<>>]
  /\ dirExists = FALSE
  /\ storeFile = NoStoreFile
  /\ keyFiles = [v \in Versions |-> [private |-> NoKeyFile, public |-> NoKeyFile]]
  /\ now = 0
  /\ generated = <<>>
  /\ overlaps = 0
  /\ pc = [p \in Procs |-> "idle"]
  /\ cmd = [p \in Procs |-> "none"]
  /\ caller = [p \in Procs |-> "none"]
  /\ rotStore = [p \in Procs |-> EmptyStore]
  /\ keyStore = [p \in Procs |-> EmptyStore]
  /\ newVersion = [p \in Procs |-> 0]
  /\ keyId = [p \in Procs |-> 0]
  /\ result = [p \in Procs |-> EmptyStore]
  /\ console = [p \in Procs |-> <<>>]
  /\ io = [p \in Procs |-> <<>>]

\* toPEM(buffer, label) is called and returns.
CallToPEM ==
  /\ pemText = <<>>
  /\ pemText' = toPEM(pemBuffer, pemLabel)
  /\ UNCHANGED <<pemBuffer, pemLabel, pemDecoded>>
  /\ UNCHANGED <<fsVars, now, generated, overlaps, pc, cmd, caller, localVars,
                 result, console, io>>

\* The returned text is decoded.
CallDecode ==
  /\ pemText # <<>>
  /\ ~pemDecoded.ok
  /\ pemDecoded' = decode(pemText)
  /\ UNCHANGED <<pemBuffer, pemLabel, pemText>>
  /\ UNCHANGED <<fsVars, now, generated, overlaps, pc, cmd, caller, localVars,
                 result, console, io>>

NextPEM == CallToPEM \/ CallDecode

SpecPEM == InitPEM /\ [][NextPEM]_vars

\* ------------------------------------------------------------- properties
\* keys[i] for every index of the store.
Entries(store) == {store.keys[i] : i \in DOMAIN store.keys}

\* The largest version among the keys, 0 when there is none.
MaxVersionOf(store) ==
  IF store.keys = <<>> THEN 0
  ELSE CHOOSE m \in {e.version : e \in Entries(store)} :
         \A e \in Entries(store) : e.version <= m

\* s is an initial segment of t.
IsPrefix(s, t) == Len(s) <= Len(t) /\ SubSeq(t, 1, Len(s)) = s

\* The entries of the store that carry version v.
Retrieve(store, v) == {e \in Entries(store) : e.version = v}

\* Caller p's rotateKeys call ends in this step (returns or throws).
RotateEnds(p) == cmd[p] = "rotate" /\ pc[p] \notin Resting /\ pc'[p] \in Resting

\* Caller p's rotateKeys call returns in this step.
RotateReturns(p) == pc[p] = "save_store_write" /\ pc'[p] = "done"

\* C1: in every store document persisted in keystore.json, currentVersion
\* is the maximum version among keys, or 0 when keys is empty.
C1_CurrentVersionIsMax ==
  Persisted(storeFile).currentVersion = MaxVersionOf(Persisted(storeFile))

C1_Witness ==
  /\ HoldsStore(storeFile)
  /\ Len(Persisted(storeFile).keys) = 2
  /\ Persisted(storeFile).currentVersion = 2

\* C2: a rotateKeys call that found a non-empty store with currentVersion v
\* returns and persists a store with currentVersion v+1 whose keys are the
\* previous keys, unchanged, followed by one new entry of version v+1.
C2_RotateAppendsOne ==
  [][\A p \in Procs :
       (RotateReturns(p) /\ Len(rotStore[p].keys) > 0) =>
         /\ result'[p].currentVersion = rotStore[p].currentVersion + 1
         /\ Len(result'[p].keys) = Len(rotStore[p].keys) + 1
         /\ IsPrefix(rotStore[p].keys, result'[p].keys)
         /\ result'[p].keys[Len(result'[p].keys)].version
              = rotStore[p].currentVersion + 1
         /\ Persisted(storeFile') = result'[p]]_vars

C2_Witness ==
  \E p \in Procs :
    /\ pc[p] = "done" /\ cmd[p] = "rotate"
    /\ result[p].currentVersion = 2
    /\ Len(result[p].keys) = 2
    /\ Persisted(storeFile) = result[p]

\* C3: no operation decreases the persisted currentVersion or removes or
\* edits an entry of the persisted keys: when a rotateKeys call ends, also
\* by failing part-way, the persisted store extends the one it loaded.
C3_NoDecreaseNoRemoval ==
  [][\A p \in Procs :
       RotateEnds(p) =>
         /\ Persisted(storeFile').currentVersion >= rotStore[p].currentVersion
         /\ IsPrefix(rotStore[p].keys, Persisted(storeFile').keys)]_vars

\* C4: a key pair retrievable by its version from the persisted store when
\* a rotateKeys call starts is retrievable by that version when it ends.
C4_KeysStayRetrievable ==
  [][\A p \in Procs :
       RotateEnds(p) =>
         \A e \in Entries(rotStore[p]) :
           e \in Retrieve(Persisted(storeFile'), e.version)]_vars

\* C5: a per-version key file, once it holds a PEM text, is never written
\* again.
C5_KeyFilesWrittenOnce ==
  [][\A v \in Versions :
       /\ keyFiles[v].private.text # <<>> =>
            keyFiles'[v].private = keyFiles[v].private
       /\ keyFiles[v].public.text # <<>> =>
            keyFiles'[v].public = keyFiles[v].public]_vars

\* C6: no two generated key pairs are ever given the same version, and the
\* version given to a key pair never changes.
C6_VersionNeverReused ==
  [][/\ \A i, j \in DOMAIN generated' :
          (i # j /\ generated'[i] # 0) => generated'[i] # generated'[j]
     /\ \A i \in DOMAIN generated :
          generated[i] # 0 => generated'[i] = generated[i]]_vars

\* C7: the versions of the persisted keys, read in order, are 1, 2, ..., n.
C7_VersionsContiguous ==
  \A i \in DOMAIN Persisted(storeFile).keys :
    Persisted(storeFile).keys[i].version = i

C7_Witness ==
  /\ HoldsStore(storeFile)
  /\ Len(Persisted(storeFile).keys) = 3

\* C8: in every store, persisted or held by a caller, currentVersion is 0
\* exactly when keys is empty.
C8_ZeroIffEmpty ==
  \A s \in {Persisted(storeFile)}
           \cup {rotStore[p] : p \in Procs}
           \cup {keyStore[p] : p \in Procs}
           \cup {result[p] : p \in Procs} :
    (s.currentVersion = 0) <=> (Len(s.keys) = 0)

C8_Witness ==
  \E p \in Procs :
    /\ pc[p] = "save_store_open"
    /\ Len(keyStore[p].keys) = 1
    /\ keyStore[p].currentVersion = 1
    /\ ~storeFile.exists

\* C9: rotateKeys on an empty store does not throw for that reason: it goes
\* on to createNewKeyPair, and on return the store, returned and persisted,
\* has exactly one key, of version 1, and currentVersion 1.
C9_RotateEmptyBootstraps ==
  [][\A p \in Procs :
       /\ (caller[p] = "rotateKeys" /\ pc[p] \in {"load_exists", "load_read"}
           /\ pc'[p] # pc[p])
            => pc'[p] \in {"load_read", "init_dir"}
       /\ (RotateReturns(p) /\ Len(rotStore[p].keys) = 0) =>
            /\ result'[p].currentVersion = 1
            /\ Len(result'[p].keys) = 1
            /\ result'[p].keys[1].version = 1
            /\ Persisted(storeFile') = result'[p]]_vars

C9_Witness ==
  \E p \in Procs :
    /\ pc[p] = "done" /\ cmd[p] = "rotate"
    /\ result[p].currentVersion = 1
    /\ Len(result[p].keys) = 1
    /\ result[p].keys[1].version = 1

\* keystore.json can be read and parsed as JSON.
Parsable(f) == f.exists /\ f.readable /\ JSONparse(f.text).ok

\* C10 as stated: loadKeyStore never raises, and returns the empty store
\* whenever keystore.json is not a valid store document.
C10_LoadEmptyUnlessStore ==
  \A p \in Procs :
    (cmd[p] = "load" /\ pc[p] \in {"done", "failed"}) =>
      /\ pc[p] = "done"
      /\ ~HoldsStore(storeFile) => result[p] = EmptyStore

\* C10 amended: loadKeyStore never raises, and returns the empty store
\* whenever keystore.json is missing, unreadable or not parsable as JSON.
C10_LoadEmptyUnlessParsable ==
  \A p \in Procs :
    (cmd[p] = "load" /\ pc[p] \in {"done", "failed"}) =>
      /\ pc[p] = "done"
      /\ ~Parsable(storeFile) => result[p] = EmptyStore

C10_Witness ==
  \E p \in Procs :
    /\ cmd[p] = "load" /\ pc[p] = "done"
    /\ storeFile.exists /\ storeFile.text.kind = "cut"
    /\ result[p] = EmptyStore

\* A step taken by caller p while its operation is at one of the places.
ActsAt(p, places) == pc[p] \in places /\ pc'[p] # pc[p]

\* C11: saveKeyStore replaces keystore.json atomically: whenever a caller
\* reads the file, during or after a save by anyone (a failed save included),
\* the text it reads is a complete JSON document, never a truncated or
\* half-written one.
C11_ReadersSeeWholeDocument ==
  [][\A q \in Procs :
       (ActsAt(q, {"load_read"}) /\ storeFile.exists /\ storeFile.readable)
         => storeFile.text.kind = "json"]_vars

\* The calls that write a file.
WriteCalls == {"writePrivate", "writePublic", "writeStore"}

\* The calls caller p has issued so far in its current operation.
Issued(p) == {io[p][i] : i \in DOMAIN io[p]}

\* C12: when key generation rejects inside createNewKeyPair, the operation
\* ends there with the error, the step leaves keystore.json and every
\* per-version key file as they were, and the operation has issued no write.
C12_FailedGenerationWritesNothing ==
  [][\A p \in Procs :
       (ActsAt(p, {"generate"}) /\ generated' = generated) =>
         /\ pc'[p] = "failed"
         /\ storeFile' = storeFile
         /\ keyFiles' = keyFiles
         /\ Issued(p) \cap WriteCalls = {}
         /\ io'[p][Len(io'[p])] = "generateKey"]_vars

\* A rotation that failed at key generation, on a disk without any store or
\* key file.
C12_Witness ==
  \E p \in Procs :
    /\ cmd[p] = "rotate" /\ pc[p] = "failed"
    /\ io[p] # <<>> /\ io[p][Len(io[p])] = "generateKey"
    /\ ~storeFile.exists
    /\ \A v \in Versions : ~keyFiles[v].private.exists /\ ~keyFiles[v].public.exists

\* How many times caller p has issued the call op in its current operation.
Times_Issued(p, op) == Cardinality({i \in DOMAIN io[p] : io[p][i] = op})

\* The calls of a rotation that create or write something.
EffectCalls == {"ensureDir", "generateKey"} \cup WriteCalls

\* C13: nothing is retried and no failure is swallowed: one rotateKeys call
\* issues at most one directory creation, one key generation, one write of
\* the private file, one of the public file and one store write; a call that
\* returned issued each of them exactly once, and a call that failed
\* surfaced the failure of the last call it issued and went no further.
C13_NoRetry ==
  \A p \in Procs :
    cmd[p] = "rotate" =>
      /\ \A op \in EffectCalls : Times_Issued(p, op) <= 1
      /\ pc[p] = "done" => \A op \in EffectCalls : Times_Issued(p, op) = 1
      /\ pc[p] = "failed" =>
            /\ result[p] = EmptyStore
            /\ io[p] # <<>>
            /\ io[p][Len(io[p])] \in EffectCalls \cup {"readTextFile"}

\* A rotation that failed on its store write, having issued it once.
C13_Witness ==
  \E p \in Procs :
    /\ cmd[p] = "rotate" /\ pc[p] = "failed"
    /\ Times_Issued(p, "writeStore") = 1
    /\ Times_Issued(p, "generateKey") = 1

\* The key pair a returned rotation added: the last entry of its result.
NewKeyOf(p) == result[p].keys[Len(result[p].keys)]

\* The number of the generated key pair an entry holds.
IdOf(entry) == entry.privateKey[2]

\* Both callers' latest operations are rotations that returned, they
\* generated their key pairs one right after the other, and keystore.json
\* holds the new key pair of only one of them.
LostUpdate ==
  /\ \A p \in Procs : cmd[p] = "rotate" /\ pc[p] = "done"
  /\ \E p, q \in Procs : IdOf(NewKeyOf(q)) = IdOf(NewKeyOf(p)) + 1
  /\ Cardinality({p \in Procs :
                    NewKeyOf(p) \in Entries(Persisted(storeFile))}) = 1

\* C14: without a lock, rotations that interleave can lose an update, and
\* only those: two returned rotations leave just one of their two new key
\* pairs in keystore.json only if operations overlapped. The lost update
\* itself is the reachable state C14_Witness.
C14_LostUpdateOnlyWhenInterleaved == LostUpdate => overlaps > 0

\* Two returned rotations that both created version 1 from the same empty
\* store; keystore.json holds one key.
C14_Witness ==
  /\ LostUpdate
  /\ \A p \in Procs : result[p].currentVersion = 1
  /\ HoldsStore(storeFile)
  /\ Len(Persisted(storeFile).keys) = 1

\* Caller p1 is back from a rotation, and the three key pairs generated so
\* far were given the versions 1, 2 and 3: three rotations succeeded, one
\* after the other, starting without a store.
ThreeRotationsDone ==
  /\ cmd["p1"] = "rotate" /\ pc["p1"] = "done"
  /\ generated = <<1, 2, 3>>

\* C15: after three successful sequential rotations from no store, the
\* returned and the persisted store have currentVersion 3 and exactly the
\* keys of versions 1, 2, 3 in that order, and private-v1.pem, public-v1.pem,
\* ... private-v3.pem, public-v3.pem exist.
C15_ThreeRotations ==
  ThreeRotationsDone =>
    /\ HoldsStore(storeFile)
    /\ Persisted(storeFile) = result["p1"]
    /\ result["p1"].currentVersion = 3
    /\ Len(result["p1"].keys) = 3
    /\ \A i \in 1..3 : result["p1"].keys[i].version = i
    /\ \A v \in 1..3 : keyFiles[v].private.exists /\ keyFiles[v].public.exists

C15_Witness ==
  /\ ThreeRotationsDone
  /\ Persisted(storeFile).currentVersion = 3
  /\ keyFiles[3].public.exists

\* A step of caller p: the start of an operation or one of its steps.
Acts(p) == pc'[p] # pc[p] \/ cmd'[p] # cmd[p]

\* keystore.json after saveKeyStore(store) wrote it in full.
Saved(store) == StoreFileOf(Overwrite(CutText(0), JSONstringify(store)))

\* C16: the persisted currentVersion increases only in the step that
\* completes the store write of createNewKeyPair; the steps of loadKeyStore,
\* listKeys and the CLI usage branch leave keystore.json as it is, and saving
\* the store that was loaded writes the same currentVersion back.
C16_OnlyCreateIncreases ==
  [][/\ Persisted(storeFile').currentVersion > Persisted(storeFile).currentVersion
         => \E p \in Procs : /\ cmd[p] = "rotate"
                              /\ caller[p] = "createNewKeyPair"
                              /\ ActsAt(p, {"save_store_write"})
                              /\ pc'[p] = "done"
     /\ \A p \in Procs :
          (Acts(p) /\ cmd'[p] \in {"load", "list", "usage"})
            => storeFile' = storeFile
     /\ Persisted(Saved(Persisted(storeFile))).currentVersion
          = Persisted(storeFile).currentVersion]_vars

\* loadKeyStore has returned a store of version 2 and keystore.json still
\* holds version 2.
C16_Witness ==
  \E p \in Procs :
    /\ cmd[p] = "load" /\ pc[p] = "done"
    /\ result[p].currentVersion = 2
    /\ Persisted(storeFile).currentVersion = 2

\* C17: listKeys is read-only: none of its steps, from the call to the
\* return, changes keystore.json, a per-version key file or the keys
\* directory or generates a key, and the only calls it issues are exists and
\* readTextFile; also when there is no store.
C17_ListReadOnly ==
  [][\A p \in Procs :
       (Acts(p) /\ cmd'[p] = "list") =>
         /\ storeFile' = storeFile
         /\ keyFiles' = keyFiles
         /\ dirExists' = dirExists
         /\ generated' = generated
         /\ \A i \in DOMAIN io'[p] : io'[p][i] \in {"exists", "readTextFile"}]_vars

\* listKeys has returned on a disk without store, and there is still no
\* store file and no keys directory.
C17_Witness ==
  \E p \in Procs :
    /\ cmd[p] = "list" /\ pc[p] = "done"
    /\ io[p] = <<"exists">>
    /\ ~storeFile.exists /\ ~dirExists

\* Caller p is back from listKeys, returned or thrown.
Listed(p) == cmd[p] = "list" /\ pc[p] \in {"done", "failed"}

\* C18: two listKeys calls with no rotation between them print the same
\* lines in the same order and end the same way, whatever keystore.json
\* holds and however much time passed between them.
C18_ListTwiceSameOutput ==
  \A p, q \in Procs :
    (Listed(p) /\ Listed(q)) => console[p] = console[q] /\ pc[p] = pc[q]

\* Both callers have listed a store of two keys, at a time after the second
\* key was created.
C18_Witness ==
  /\ \A p \in Procs : Listed(p) /\ Len(console[p]) = 6
  /\ now > Persisted(storeFile).keys[2].createdAt

\* A console line that is the row of a key.
IsRow(line) == line.msg \in {"  Current ", "  Archived"}

\* The rows among the lines, in the order they were printed.
RowsOf(lines) == SelectSeq(lines, IsRow)

\* The step in which listKeys, called by p, prints and returns.
ListReturns(p) ==
  /\ cmd[p] = "list"
  /\ ActsAt(p, {"load_exists", "load_read"})
  /\ pc'[p] = "done"

\* C19: listKeys prints one row per key of the store in keystore.json, in
\* stored order, each with its version and creation time, marked Current
\* exactly when its version is currentVersion and Archived otherwise; for a
\* non-empty store exactly one row is marked Current, and it is the last.
C19_ListMarksCurrent ==
  [][\A p \in Procs :
       ListReturns(p) =>
         LET store == Persisted(storeFile)
             rows == RowsOf(console'[p])
         IN /\ Len(rows) = Len(store.keys)
            /\ \A i \in DOMAIN rows :
                 /\ rows[i].args = <<store.keys[i].version,
                                     toLocaleString(store.keys[i].createdAt)>>
                 /\ rows[i].msg = "  Current "
                      <=> store.keys[i].version = store.currentVersion
            /\ \A i \in DOMAIN rows :
                 rows[i].msg = "  Current " <=> i = Len(rows)]_vars

\* A listing of versions 1 and 2 with 2 current: 1 Archived, then 2 Current.
C19_Witness ==
  \E p \in Procs :
    /\ cmd[p] = "list" /\ pc[p] = "done"
    /\ Len(RowsOf(console[p])) = 2
    /\ RowsOf(console[p])[1].msg = "  Archived"
    /\ RowsOf(console[p])[1].args[1] = 1
    /\ RowsOf(console[p])[2].msg = "  Current "
    /\ RowsOf(console[p])[2].args[1] = 2

\* The three lines of the usage text.
UsageText ==
  <<Log("log", "Usage:", <<>>), Log("log", "  rotate", <<>>),
    Log("log", "  list", <<>>)>>

\* C20: the CLI called with no argument or an unrecognised one is over in
\* one step that prints the usage text and nothing else: it issues no exists
\* or read, no key generation and no write, returns no store, and leaves
\* keystore.json, the key files and the keys directory unchanged.
C20_UsageOnlyPrints ==
  [][\A p \in Procs :
       (Acts(p) /\ cmd'[p] = "usage") =>
         /\ pc'[p] = "done"
         /\ console'[p] = UsageText
         /\ io'[p] = <<>>
         /\ result'[p] = EmptyStore
         /\ generated' = generated
         /\ storeFile' = storeFile
         /\ keyFiles' = keyFiles
         /\ dirExists' = dirExists]_vars

\* The only caller there has been rotated and then asked for the usage
\* text: it was printed on a disk that holds a store and its files.
C20_Witness ==
  \E p \in Procs :
    /\ cmd[p] = "usage" /\ pc[p] = "done"
    /\ \A q \in Procs \ {p} : cmd[q] = "none"
    /\ console[p] = UsageText /\ io[p] = <<>>
    /\ Persisted(storeFile).currentVersion = 1
    /\ keyFiles[1].private.exists

\* The text has the delimiter lines of the label around a body, ends with
\* one line break after the END line, and its body lines put together are
\* the base64 of the buffer, every line but the last of 64 characters and
\* the last of at most 64.
PemFramed(text, buffer, label) ==
  LET pieces == Split(text)
      lines == BodyLines(text)
  IN /\ Len(pieces) >= 4
     /\ pieces[1] = BeginLine(label)
     /\ pieces[Len(pieces) - 1] = EndLine(label)
     /\ pieces[Len(pieces)] = <<>>
     /\ Concat(lines) = btoa(buffer)
     /\ \A i \in 1..(Len(lines) - 1) : Len(lines[i]) = 64
     /\ Len(lines[Len(lines)]) <= 64

\* No body line of the text is empty.
NoEmptyBodyLine(text) ==
  \A i \in DOMAIN BodyLines(text) : BodyLines(text)[i] # <<>>

CreateOrder(read) ==
  <<"ensureDir", "exists">> \o (IF read THEN <<"readTextFile">> ELSE <<>>)
    \o <<"generateKey", "writePrivate", "writePublic", "writeStore">>

\* The calls caller p has issued since it entered createNewKeyPair.
CreateCalls(p) ==
  LET at == CHOOSE k \in DOMAIN io[p] : io[p][k] = "ensureDir"
  IN SubSeq(io[p], at, Len(io[p]))

\* C23: the calls of one createNewKeyPair are issued one at a time in the
\* order ensure directory, load store, generate, write private file, write
\* public file, write store; the entry is appended and currentVersion set in
\* memory after the public file and before the store write; and the store
\* write is issued only when both key files of the new version were written.
C23_StepsInOrder ==
  \A p \in Procs :
    (cmd[p] = "rotate" /\ "ensureDir" \in Issued(p)) =>
      /\ \E read \in BOOLEAN : IsPrefix(CreateCalls(p), CreateOrder(read))
      /\ pc[p] \in {"generate", "save_private", "save_public"} =>
            /\ keyStore[p].currentVersion = newVersion[p] - 1
            /\ "writeStore" \notin Issued(p)
      /\ pc[p] \in {"save_store_open", "save_store_write"} =>
            /\ keyStore[p].currentVersion = newVersion[p]
            /\ keyStore[p].keys[Len(keyStore[p].keys)].version = newVersion[p]
            /\ {"writePrivate", "writePublic"} \subseteq Issued(p)
            /\ keyFiles[newVersion[p]].private.exists
            /\ keyFiles[newVersion[p]].public.exists

\* A rotation is in its store write, having issued all its calls in order.
C23_Witness ==
  \E p \in Procs :
    /\ pc[p] = "save_store_write"
    /\ CreateCalls(p) = CreateOrder(TRUE)

\* The warning of loadKeyStore is among the lines caller p got.
Warned(p) ==
  \E i \in DOMAIN console[p] :
    console[p][i] = Log("warn", "Could not load keystore, creating new one", <<>>)

\* C24: loadKeyStore always returns; it has written the warning exactly
\* when keystore.json exists but could not be read or parsed, and then it
\* returns the empty store; when the file does not exist it returns the
\* empty store and has written nothing.
C24_WarnsIffUnreadable ==
  \A p \in Procs :
    (cmd[p] = "load" /\ pc[p] \in {"done", "failed"}) =>
      /\ pc[p] = "done"
      /\ Warned(p) <=> (storeFile.exists /\ ~Parsable(storeFile))
      /\ Warned(p) => result[p] = EmptyStore
      /\ ~storeFile.exists => (result[p] = EmptyStore /\ console[p] = <<>>)

\* loadKeyStore has returned with the warning over a store file that the
\* process may not read.
C24_Witness ==
  \E p \in Procs :
    /\ cmd[p] = "load" /\ pc[p] = "done"
    /\ storeFile.exists /\ ~storeFile.readable
    /\ Warned(p)

\* C25: in every state, between the steps of a rotation and after a failed
\* one too, every version that appears in the store persisted in
\* keystore.json has its private-vN.pem and its public-vN.pem on disk.
C25_PersistedVersionsHaveFiles ==
  \A e \in Entries(Persisted(storeFile)) :
    /\ e.version \in Versions
    /\ keyFiles[e.version].private.exists
    /\ keyFiles[e.version].public.exists

\* A rotation failed while writing the files of version 2, over a store that
\* holds version 1.
C25_Witness ==
  \E p \in Procs :
    /\ cmd[p] = "rotate" /\ pc[p] = "failed"
    /\ io[p][Len(io[p])] = "writePublic"
    /\ Persisted(storeFile).currentVersion = 1
    /\ keyFiles[2].private.exists /\ ~keyFiles[2].public.exists

\* Every caller is idle or back from a rotation that returned.
RotationsCompleted ==
  \A p \in Procs :
    \/ pc[p] = "idle"
    \/ cmd[p] = "rotate" /\ pc[p] = "done"

\* C26: once the rotations that were started have returned, interleaved or
\* not, private-vN.pem and public-vN.pem hold the privateKey and the
\* publicKey of the entry of version N, for every entry of the store
\* persisted in keystore.json.
C26_FilesMatchStore ==
  RotationsCompleted =>
    \A e \in Entries(Persisted(storeFile)) :
      /\ keyFiles[e.version].private.text = e.privateKey
      /\ keyFiles[e.version].public.text = e.publicKey

\* The places of a rotation after rotateKeys loaded the store into rotStore.
AfterRotateLoad ==
  {"init_dir", "generate", "save_private", "save_public",
   "save_store_open", "save_store_write"}

\* C27: a rotation that fails, at the directory creation, the key
\* generation, either key file or the store write, leaves in keystore.json
\* the store document that the call found when it started (the one
\* rotateKeys loaded): same currentVersion, same keys.
C27_FailedCallKeepsStore ==
  [][\A p \in Procs :
       (cmd[p] = "rotate" /\ (pc[p] \in AfterRotateLoad
                               \/ caller[p] = "createNewKeyPair")
        /\ pc'[p] = "failed")
         => Persisted(storeFile') = rotStore[p]]_vars

\* The store has as many keys as its currentVersion says, of the versions
\* 1, 2, ... in that order.
WellFormed(store) ==
  /\ store.currentVersion = Len(store.keys)
  /\ \A i \in DOMAIN store.keys : store.keys[i].version = i

\* C28: with atomic file reads and writes, in every state that interleaved
\* rotations of two callers reach, the store in keystore.json and every
\* store a rotation returned have currentVersion equal to the number of
\* keys and the versions 1..n in order: no duplicate, gap or disorder.
C28_StructureUnderInterleaving ==
  /\ storeFile.exists => HoldsStore(storeFile)
  /\ WellFormed(Persisted(storeFile))
  /\ \A p \in Procs : WellFormed(result[p])

\* Two interleaved rotations have returned, two key pairs were generated,
\* and keystore.json holds one key: a key was lost, the structure was not.
C28_Witness ==
  /\ \A p \in Procs : cmd[p] = "rotate" /\ pc[p] = "done"
  /\ Len(generated) = 2
  /\ Len(Persisted(storeFile).keys) = 1
  /\ overlaps > 0

====
